---- MODULE Spec2Model ----
(***************************************************************************)
(* The nine browser-automation scripts of src/verification as one state    *)
(* machine.  A run picks a script, executes its statements one at a time   *)
(* (every automation call may succeed or raise), follows Python's          *)
(* try/except/finally rules, and records the automation calls (trace) and  *)
(* the lines printed to standard output (out).  The page under test, the   *)
(* route handlers and the passing of time are separate processes.          *)
(***************************************************************************)
EXTENDS Integers, Sequences, FiniteSets, TLC

VARIABLES
    script,        \* the script being executed
    pc,            \* index of the next statement in Code(script); 0 = process ended
    exc,           \* exception in flight (not caught); at pc = 0 it left the script
    caught,        \* the exception bound to e by "except Exception as e"
    raised,        \* some statement of this execution raised
    browser,       \* "none" | "open" | "closed" (browser.close()) | "stopped"
    trace,         \* automation calls made by the script, in order
    out,           \* lines printed to standard output, in order
    imgs,          \* verify_lazy: attributes of the images matched by the locator
    history_count, \* verify_lazy: history_images.count()
    i,             \* verify_lazy: loop variable
    loading_attr,  \* verify_lazy: local
    decoding_attr, \* verify_lazy: local
    content,       \* verify_spinner: what page.content() returned
    sleepLeft,     \* ticks left of the script's time.sleep; -1 = not sleeping
    routed,        \* "none", or what the registered route handler answers
    reqs,          \* intercepted API requests of the page and their handlers
    prev           \* summary of an earlier successful execution of the same script

vars == <<script, pc, exc, caught, raised, browser, trace, out, imgs,
          history_count, i, loading_attr, decoding_attr, content, sleepLeft,
          routed, reqs, prev>>

\* ------------------------------------------------------------------ bounds

\* Largest number of images the history list of the page may hold.
MaxImages == 3
\* Largest number of API requests the page issues after the Save Key click.
MaxRequests == 2

\* ------------------------------------------------------- program text

Scripts == {"verify_accordion", "verify_accordion_v2", "verify_accordion_v3",
            "verify_app", "verify_buttons", "verify_changes", "verify_lazy",
            "verify_lazy_loading", "verify_spinner"}

\* One statement: the block it stands in ("pre": before the try, "try",
\* "except", "finally", "body": a script without try), its source line, the
\* call, what it is applied to and its argument.
S(blk, line, op, tgt, val) ==
    [blk |-> blk, line |-> line, op |-> op, tgt |-> tgt, val |-> val]

Code_verify_accordion == <<
    S("pre", 41, "launch", "browser", ""),
    S("pre", 42, "new_page", "page", ""),
    S("try", 4, "goto", "page", "http://localhost:5173"),
    S("try", 10, "expect", "toggle", "aria-expanded=false"),
    S("try", 14, "expect", "content", "not visible"),
    S("try", 17, "click", "toggle", ""),
    S("try", 20, "expect", "toggle", "aria-expanded=true"),
    S("try", 21, "expect", "content", "visible"),
    S("try", 24, "expect", "toggle", "aria-controls=example-prompts-content"),
    S("try", 28, "expect", "region", "visible"),
    S("try", 33, "expect", "copy_btn", "visible"),
    S("try", 36, "screenshot", "page", "verification/accordion_expanded.png"),
    S("try", 37, "print", "success", ""),
    S("except", 46, "print", "failed", ""),
    S("finally", 48, "close", "browser", "") >>

Code_verify_accordion_v2 == <<
    S("pre", 58, "launch", "browser", ""),
    S("pre", 59, "new_page", "page", ""),
    S("try", 4, "goto", "page", "http://localhost:5173"),
    S("try", 7, "wait", "page", "text=Auto-Correcting Frame Generator"),
    S("try", 21, "fill", "api_key", "dummy_api_key"),
    S("try", 22, "click", "save_key", ""),
    S("try", 27, "expect", "toggle", "visible"),
    S("try", 32, "expect", "toggle", "aria-expanded=false"),
    S("try", 36, "expect", "content", "not visible"),
    S("try", 39, "click", "toggle", ""),
    S("try", 42, "expect", "toggle", "aria-expanded=true"),
    S("try", 43, "expect", "content", "visible"),
    S("try", 46, "expect", "toggle", "aria-controls=example-prompts-content"),
    S("try", 50, "expect", "region", "visible"),
    S("try", 53, "screenshot", "page", "verification/accordion_verified.png"),
    S("try", 54, "print", "success", ""),
    S("except", 63, "print", "failed", ""),
    S("finally", 65, "close", "browser", "") >>

Code_verify_accordion_v3 == <<
    S("pre", 66, "launch", "browser", ""),
    S("pre", 67, "new_page", "page", ""),
    S("try", 24, "route", "page", "fulfill"),
    S("try", 26, "goto", "page", "http://localhost:5173"),
    S("try", 29, "wait", "page", "text=Auto-Correcting Frame Generator"),
    S("try", 32, "fill", "api_key", "dummy_api_key"),
    S("try", 33, "click", "save_key", ""),
    S("try", 38, "expect", "toggle", "visible"),
    S("try", 41, "expect", "toggle", "aria-expanded=false"),
    S("try", 44, "expect", "content", "not visible"),
    S("try", 47, "click", "toggle", ""),
    S("try", 50, "expect", "toggle", "aria-expanded=true"),
    S("try", 51, "expect", "content", "visible"),
    S("try", 54, "expect", "toggle", "aria-controls=example-prompts-content"),
    S("try", 58, "expect", "region", "visible"),
    S("try", 61, "screenshot", "page", "verification/accordion_verified.png"),
    S("try", 62, "print", "success", ""),
    S("except", 71, "print", "failed", ""),
    S("finally", 73, "close", "browser", "") >>

\* verify_app with the screenshot taken before the page is waited for.
Code_verify_app_ScreenshotEarly == <<
    S("pre", 19, "launch", "browser", ""),
    S("pre", 20, "new_page", "page", ""),
    S("try", 5, "goto", "page", "http://localhost:5173"),
    S("try", 14, "screenshot", "page", "verification/app_start.png"),
    S("try", 11, "wait", "page", "text=Auto-Correcting Frame Generator"),
    S("try", 15, "print", "screenshot_taken", ""),
    S("except", 24, "print", "error", ""),
    S("finally", 26, "close", "browser", "") >>

Code_verify_app == <<
    S("pre", 19, "launch", "browser", ""),
    S("pre", 20, "new_page", "page", ""),
    S("try", 5, "goto", "page", "http://localhost:5173"),
    S("try", 11, "wait", "page", "text=Auto-Correcting Frame Generator"),
    S("try", 14, "screenshot", "page", "verification/app_start.png"),
    S("try", 15, "print", "screenshot_taken", ""),
    S("except", 24, "print", "error", ""),
    S("finally", 26, "close", "browser", "") >>

Code_verify_buttons == <<
    S("body", 5, "launch", "browser", ""),
    S("body", 6, "new_page", "page", ""),
    S("body", 9, "goto", "page", "http://localhost:5173"),
    S("body", 16, "evaluate", "page", "localStorage.setItem"),
    S("body", 17, "reload", "page", ""),
    S("body", 20, "wait", "page", "#prompt-input"),
    S("body", 27, "print_attr", "simple_btn", "aria-pressed"),
    S("body", 28, "print_attr", "pro_btn", "aria-pressed"),
    S("body", 31, "screenshot", "page", "verification/mode_buttons_initial.png"),
    S("body", 34, "click", "pro_btn", ""),
    S("body", 36, "print_attr", "simple_btn", "aria-pressed"),
    S("body", 37, "print_attr", "pro_btn", "aria-pressed"),
    S("body", 40, "screenshot", "page", "verification/mode_buttons_pro.png"),
    S("body", 42, "close", "browser", "") >>

Code_verify_changes == <<
    S("pre", 62, "launch", "browser", ""),
    S("pre", 63, "new_page", "page", ""),
    S("try", 9, "goto", "page", "http://localhost:5173"),
    S("try", 12, "wait", "page", "networkidle"),
    S("try", 15, "evaluate", "page", "localStorage.setItem"),
    S("try", 16, "reload", "page", ""),
    S("try", 21, "expect", "prompt_input", "visible"),
    S("try", 28, "expect", "tip_text", "visible"),
    S("try", 32, "expect", "kbd_elements", "count=2"),
    S("try", 33, "expect", "kbd_first", "text=Ctrl"),
    S("try", 34, "expect", "kbd_last", "text=Enter"),
    S("try", 38, "evaluate", "prompt_input", "scrollIntoView"),
    S("try", 39, "sleep", "", "0.5"),
    S("try", 41, "screenshot", "prompt_parent", "verification/prompt_input_hint.png"),
    S("try", 48, "expect", "generate_btn", "visible"),
    S("try", 53, "expect", "sparkles", "visible"),
    S("try", 58, "print", "success", ""),
    S("except", 67, "print", "error", ""),
    S("except", 68, "screenshot", "page", "verification/error.png"),
    S("finally", 70, "close", "browser", "") >>

Code_verify_lazy == <<
    S("pre", 41, "launch", "browser", ""),
    S("pre", 42, "new_page", "page", ""),
    S("try", 6, "goto", "page", "http://localhost:5173"),
    S("try", 11, "click", "history_tab", ""),
    S("try", 15, "wait", "page", "img[alt^='Iteration']"),
    S("try", 19, "count", "history_images", ""),
    S("try", 20, "print", "found_images", ""),
    S("try", 22, "for", "i", ""),
    S("try", 24, "get_attribute", "img", "loading"),
    S("try", 25, "get_attribute", "img", "decoding"),
    S("try", 26, "print", "image", ""),
    S("try", 28, "if_raise", "loading", "lazy"),
    S("try", 30, "if_raise", "decoding", "async"),
    S("try", 35, "makedirs", "", "/home/jules/verification"),
    S("try", 36, "screenshot", "page", "/home/jules/verification/verification.png"),
    S("try", 37, "print", "saved", ""),
    S("finally", 46, "close", "browser", "") >>

Code_verify_lazy_loading == <<
    S("body", 5, "launch", "browser", ""),
    S("body", 6, "new_page", "page", ""),
    S("body", 9, "goto", "page", "http://localhost:3000"),
    S("body", 12, "wait", "page", "h1"),
    S("body", 15, "screenshot", "page", "verification/app_loaded.png"),
    S("body", 25, "print", "app_loaded", ""),
    S("body", 26, "close", "browser", "") >>

Code_verify_spinner == <<
    S("body", 7, "launch", "browser", ""),
    S("body", 8, "new_context", "context", ""),
    S("body", 9, "new_page", "page", ""),
    S("body", 13, "sleep", "", "5"),
    S("body", 14, "goto", "page", "http://localhost:5173"),
    S("body", 17, "wait", "page", "h3:has-text"),
    S("body", 20, "fill", "api_key", "dummy-api-key"),
    S("body", 40, "route", "page", "abort"),
    S("body", 43, "click", "save_key", ""),
    S("body", 51, "sleep", "", "0.5"),
    S("body", 53, "screenshot", "page", "/home/jules/verification/spinner_verification.png"),
    S("body", 57, "content", "page", ""),
    S("body", 58, "if_content", "", ""),
    S("body", 59, "print", "spinner_found", ""),
    S("body", 61, "print", "spinner_not_found", ""),
    S("body", 62, "print", "content", ""),
    S("body", 64, "close", "browser", "") >>

Code(s) ==
    CASE s = "verify_accordion" -> Code_verify_accordion
      [] s = "verify_accordion_v2" -> Code_verify_accordion_v2
      [] s = "verify_accordion_v3" -> Code_verify_accordion_v3
      [] s = "verify_app" -> Code_verify_app
      [] s = "verify_buttons" -> Code_verify_buttons
      [] s = "verify_changes" -> Code_verify_changes
      [] s = "verify_lazy" -> Code_verify_lazy
      [] s = "verify_lazy_loading" -> Code_verify_lazy_loading
      [] s = "verify_spinner" -> Code_verify_spinner

\* The route handlers: handle_gemini_api of verify_accordion_v3 and
\* handle_route of verify_spinner.
handle_gemini_api == <<
    S("handler", 21, "fulfill", "route", "200") >>

handle_route == <<
    S("handler", 37, "sleep", "", "2"),
    S("handler", 38, "abort", "route", "") >>

HandlerCode(s) ==
    CASE s = "verify_accordion_v3" -> handle_gemini_api
      [] s = "verify_spinner" -> handle_route
      [] OTHER -> << >>

\* time.sleep(seconds) in ticks of half a second.
Ticks(seconds) ==
    CASE seconds = "5" -> 10
      [] seconds = "2" -> 4
      [] seconds = "0.5" -> 1

\* ------------------------------------------------------- values

NoExc == [type |-> "none", line |-> 0, idx |-> -1]
Exc(type, line, idx) == [type |-> type, line |-> line, idx |-> idx]

NoPrev == [ops |-> << >>, kinds |-> << >>, set |-> FALSE]

\* What get_attribute may return ("null": the attribute is absent, None).
LoadingValues == {"lazy", "eager", "null"}
DecodingValues == {"async", "null"}
PressedValues == {"true", "false", "null"}
ContentValues == {"validating+spin", "validating", "spin", "neither"}

Image == [loading : LoadingValues, decoding : DecodingValues]

\* All sequences over S of length at most n.
SeqUpTo(St, n) == UNION {[1..k -> St] : k \in 0..n}

\* ------------------------------------------------------- control flow

Stmt == Code(script)[pc]
Running == pc \in 1..Len(Code(script))
At(op) == Running /\ Stmt.op = op

ExitPc(s) == Len(Code(s)) + 1

HasBlk(s, blk) == \E k \in 1..Len(Code(s)) : Code(s)[k].blk = blk
FirstOf(s, blk) ==
    CHOOSE k \in 1..Len(Code(s)) :
        /\ Code(s)[k].blk = blk
        /\ \A j \in 1..(k - 1) : Code(s)[j].blk # blk
IdxOfLine(s, line) ==
    CHOOSE k \in 1..Len(Code(s)) :
        /\ Code(s)[k].line = line
        /\ \A j \in 1..(k - 1) : Code(s)[j].line # line

\* The statement executed after statement p completes normally: the next one,
\* except that the end of a try block skips the except block.
NextPc(s, p) ==
    IF /\ p < Len(Code(s))
       /\ Code(s)[p].blk = "try"
       /\ Code(s)[p + 1].blk = "except"
    THEN FirstOf(s, "finally")
    ELSE IF s = "verify_spinner" /\ Code(s)[p].line = 59
    THEN IdxOfLine(s, 64)      \* the end of the if branch skips the else branch
    ELSE p + 1

\* Where control goes when statement p raises, and whether an except clause
\* catches the exception there.
Handler(s, p) ==
    LET blk == Code(s)[p].blk IN
    IF blk = "try" /\ HasBlk(s, "except")
    THEN [pc |-> FirstOf(s, "except"), catches |-> TRUE]
    ELSE IF blk \in {"try", "except"}
    THEN [pc |-> FirstOf(s, "finally"), catches |-> FALSE]
    ELSE [pc |-> ExitPc(s), catches |-> FALSE]

\* The current statement completes normally and control moves to q. A finally
\* block that ends with an exception in flight re-raises it.
GoTo(q) ==
    pc' = IF /\ q <= Len(Code(script))
             /\ Stmt.blk = "finally"
             /\ exc # NoExc
             /\ Code(script)[q].blk # "finally"
          THEN ExitPc(script)
          ELSE q

Continue == GoTo(NextPc(script, pc))

\* The current statement raises e.
Raise(e) ==
    LET h == Handler(script, pc) IN
    /\ pc' = h.pc
    /\ caught' = IF h.catches THEN e ELSE caught
    /\ exc' = IF h.catches THEN NoExc ELSE e
    /\ raised' = TRUE

\* The record of an automation call in the trace.
T(st, ok, idx) ==
    [line |-> st.line, op |-> st.op, tgt |-> st.tgt, val |-> st.val,
     idx |-> idx, ok |-> ok]

Msg(kind, line, arg) == [kind |-> kind, line |-> line, arg |-> arg]

\* ------------------------------------------------------- initial state

Init ==
    /\ script \in Scripts
    /\ pc = 1
    /\ exc = NoExc
    /\ caught = NoExc
    /\ raised = FALSE
    /\ browser = "none"
    /\ trace = << >>
    /\ out = << >>
    /\ imgs = << >>
    /\ history_count = 0
    /\ i = 0
    /\ loading_attr = "unset"
    /\ decoding_attr = "unset"
    /\ content = "unset"
    /\ sleepLeft = -1
    /\ routed = "none"
    /\ reqs = << >>
    /\ prev = NoPrev

lazyVars == <<imgs, history_count, i, loading_attr, decoding_attr>>
netVars == <<routed, reqs>>

\* ------------------------------------------------------- the script's steps

\* An automation call returns.
CallOk ==
    /\ trace' = Append(trace, T(Stmt, TRUE, -1))
    /\ Continue
    /\ UNCHANGED <<exc, caught, raised>>

\* An automation call raises.
CallFail(type) ==
    /\ trace' = Append(trace, T(Stmt, FALSE, -1))
    /\ Raise(Exc(type, Stmt.line, -1))

\* A call that changes nothing the script keeps.
Call(op, type) ==
    /\ At(op)
    /\ CallOk \/ CallFail(type)
    /\ UNCHANGED <<script, browser, out, lazyVars, content, sleepLeft, netVars, prev>>

\* p.chromium.launch()
Launch ==
    /\ At("launch")
    /\ \/ CallOk /\ browser' = "open"
       \/ CallFail("Error") /\ UNCHANGED browser
    /\ UNCHANGED <<script, out, lazyVars, content, sleepLeft, netVars, prev>>

\* browser.new_context()
NewContext == Call("new_context", "Error")

\* browser.new_page(), context.new_page()
NewPage == Call("new_page", "Error")

\* page.route(pattern, handler)
Route ==
    /\ At("route")
    /\ \/ CallOk /\ routed' = Stmt.val
       \/ CallFail("Error") /\ UNCHANGED routed
    /\ UNCHANGED <<script, browser, out, lazyVars, content, sleepLeft, reqs, prev>>

\* page.goto(url)
Goto == Call("goto", "Error")

\* page.reload()
Reload == Call("reload", "Error")

\* page.wait_for_selector(selector), page.wait_for_load_state(state)
Wait == Call("wait", "Error")

\* locator.fill(value), page.fill(selector, value)
Fill == Call("fill", "Error")

\* locator.click(), page.click(selector)
Click == Call("click", "Error")

\* page.evaluate(expression), locator.evaluate(expression)
Evaluate == Call("evaluate", "Error")

\* Expect with a failed expectation that does not raise.
Expect_FailureIgnored ==
    /\ At("expect")
    /\ \/ CallOk
       \/ /\ trace' = Append(trace, T(Stmt, FALSE, -1))
          /\ Continue
          /\ UNCHANGED <<exc, caught, raised>>
    /\ UNCHANGED <<script, browser, out, lazyVars, content, sleepLeft, netVars, prev>>

\* expect(locator).to_...(): passes or raises AssertionError
Expect == Call("expect", "AssertionError")

\* page.screenshot(path), locator.screenshot(path)
Screenshot == Call("screenshot", "Error")

\* os.makedirs(path, exist_ok=True)
Makedirs == Call("makedirs", "OSError")

\* history_images.count(): the page decides how many images match and what
\* their attributes are.
Count ==
    /\ At("count")
    /\ \/ /\ CallOk
          /\ \E im \in SeqUpTo(Image, MaxImages) :
                /\ imgs' = im
                /\ history_count' = Len(im)
          /\ UNCHANGED <<i, loading_attr, decoding_attr>>
       \/ CallFail("Error") /\ UNCHANGED lazyVars
    /\ UNCHANGED <<script, browser, out, content, sleepLeft, netVars, prev>>

\* for i in range(history_count):
For ==
    /\ At("for")
    /\ IF i < history_count
       THEN Continue
       ELSE GoTo(IdxOfLine(script, 35))
    /\ UNCHANGED <<script, exc, caught, raised, browser, trace, out, lazyVars,
                   content, sleepLeft, netVars, prev>>

\* loading_attr = img.get_attribute("loading"), decoding_attr = ...("decoding")
GetAttribute ==
    /\ At("get_attribute")
    /\ \/ /\ trace' = Append(trace, T(Stmt, TRUE, i))
          /\ Continue
          /\ IF Stmt.val = "loading"
             THEN loading_attr' = imgs[i + 1].loading /\ UNCHANGED decoding_attr
             ELSE decoding_attr' = imgs[i + 1].decoding /\ UNCHANGED loading_attr
          /\ UNCHANGED <<exc, caught, raised>>
       \/ /\ trace' = Append(trace, T(Stmt, FALSE, i))
          /\ Raise(Exc("Error", Stmt.line, -1))
          /\ UNCHANGED <<loading_attr, decoding_attr>>
    /\ UNCHANGED <<script, browser, out, imgs, history_count, i, content,
                   sleepLeft, netVars, prev>>

\* IfRaise without the check of decoding_attr.
IfRaise_LoadingOnly ==
    /\ At("if_raise")
    /\ IF Stmt.tgt = "loading" /\ loading_attr # Stmt.val
       THEN /\ Raise(Exc("AssertionError", Stmt.line + 1, i))
            /\ UNCHANGED i
       ELSE /\ IF Stmt.tgt = "decoding"
               THEN GoTo(IdxOfLine(script, 22)) /\ i' = i + 1
               ELSE Continue /\ UNCHANGED i
            /\ UNCHANGED <<exc, caught, raised>>
    /\ UNCHANGED <<script, browser, trace, out, imgs, history_count,
                   loading_attr, decoding_attr, content, sleepLeft, netVars, prev>>

\* if loading_attr != "lazy": raise AssertionError(...)
\* if decoding_attr != "async": raise AssertionError(...)
\* The second one ends the loop body: control returns to the for statement.
IfRaise ==
    /\ At("if_raise")
    /\ LET attr == IF Stmt.tgt = "loading" THEN loading_attr ELSE decoding_attr IN
       IF attr # Stmt.val
       THEN /\ Raise(Exc("AssertionError", Stmt.line + 1, i))
            /\ UNCHANGED i
       ELSE /\ IF Stmt.tgt = "decoding"
               THEN GoTo(IdxOfLine(script, 22)) /\ i' = i + 1
               ELSE Continue /\ UNCHANGED i
            /\ UNCHANGED <<exc, caught, raised>>
    /\ UNCHANGED <<script, browser, trace, out, imgs, history_count,
                   loading_attr, decoding_attr, content, sleepLeft, netVars, prev>>

\* PrintAttr printing another message when the attribute is absent.
PrintAttr_BranchOnNull ==
    /\ At("print_attr")
    /\ \/ /\ CallOk
          /\ \E v \in PressedValues :
                out' = Append(out, Msg(IF v = "null" THEN "aria_pressed_missing"
                                                   ELSE "aria_pressed",
                                       Stmt.line, <<Stmt.tgt, v>>))
       \/ CallFail("Error") /\ UNCHANGED out
    /\ UNCHANGED <<script, browser, lazyVars, content, sleepLeft, netVars, prev>>

\* print(f"... aria-pressed: {btn.get_attribute('aria-pressed')}")
PrintAttr ==
    /\ At("print_attr")
    /\ \/ /\ CallOk
          /\ \E v \in PressedValues :
                out' = Append(out, Msg("aria_pressed", Stmt.line, <<Stmt.tgt, v>>))
       \/ CallFail("Error") /\ UNCHANGED out
    /\ UNCHANGED <<script, browser, lazyVars, content, sleepLeft, netVars, prev>>

\* content = page.content()
Content ==
    /\ At("content")
    /\ \/ CallOk /\ content' \in ContentValues
       \/ CallFail("Error") /\ UNCHANGED content
    /\ UNCHANGED <<script, browser, out, lazyVars, sleepLeft, netVars, prev>>

\* if "Validating..." in content and "animate-spin" in content: ... else: ...
IfContent ==
    /\ At("if_content")
    /\ IF content = "validating+spin"
       THEN Continue
       ELSE GoTo(IdxOfLine(script, 61))
    /\ UNCHANGED <<script, exc, caught, raised, browser, trace, out, lazyVars,
                   content, sleepLeft, netVars, prev>>

\* What a print statement interpolates into its message.
PrintArg(st) ==
    CASE st.tgt \in {"failed", "error"} -> <<caught.type, ToString(caught.line)>>
      [] st.tgt = "found_images" -> <<ToString(history_count)>>
      [] st.tgt = "image" -> <<ToString(i), loading_attr, decoding_attr>>
      [] st.tgt = "content" -> <<content>>
      [] OTHER -> << >>

\* print(message)
PrintLine ==
    /\ At("print")
    /\ out' = Append(out, Msg(Stmt.tgt, Stmt.line, PrintArg(Stmt)))
    /\ Continue
    /\ UNCHANGED <<script, exc, caught, raised, browser, trace, lazyVars,
                   content, sleepLeft, netVars, prev>>

\* time.sleep(seconds): the script starts to sleep ...
SleepBegin ==
    /\ At("sleep")
    /\ sleepLeft = -1
    /\ sleepLeft' = Ticks(Stmt.val)
    /\ UNCHANGED <<script, pc, exc, caught, raised, browser, trace, out,
                   lazyVars, content, netVars, prev>>

\* ... and wakes up once the time has passed.
SleepEnd ==
    /\ At("sleep")
    /\ sleepLeft = 0
    /\ sleepLeft' = -1
    /\ Continue
    /\ UNCHANGED <<script, exc, caught, raised, browser, trace, out, lazyVars,
                   content, netVars, prev>>

\* browser.close()
Close ==
    /\ At("close")
    /\ browser' = "closed"
    /\ trace' = Append(trace, T(Stmt, TRUE, -1))
    /\ Continue
    /\ UNCHANGED <<script, exc, caught, raised, out, lazyVars, content,
                   sleepLeft, netVars, prev>>

\* The end of "with sync_playwright() as p": Playwright stops, and with it a
\* browser that was not closed; the process ends, with exc propagating if set.
WithExit ==
    /\ pc = ExitPc(script)
    /\ pc' = 0
    /\ browser' = IF browser = "open" THEN "stopped" ELSE browser
    /\ UNCHANGED <<script, exc, caught, raised, trace, out, lazyVars, content,
                   sleepLeft, netVars, prev>>

\* ------------------------------------------------------- page and handlers

scriptVars == <<script, pc, exc, caught, raised, browser, trace, out,
                lazyVars, content>>

\* The Save Key click has been performed on the page.
SaveKeyClicked ==
    \E k \in 1..Len(trace) :
        trace[k].op = "click" /\ trace[k].tgt = "save_key" /\ trace[k].ok

\* hpc: 0 = the handler was not called yet, else the handler's next statement.
NewRequest == [hpc |-> 0, timer |-> -1, answers |-> 0, failed |-> FALSE]

HLen == Len(HandlerCode(script))
HStmt(r) == HandlerCode(script)[reqs[r].hpc]
HAt(r, op) == reqs[r].hpc \in 1..HLen /\ HStmt(r).op = op

\* The page, validating the key after the Save Key click, sends a request that
\* matches the route pattern (verify_spinner.py lines 22-33 say when it does).
PageRequest ==
    /\ pc # 0
    /\ browser = "open"
    /\ routed # "none"
    /\ SaveKeyClicked
    /\ Len(reqs) < MaxRequests
    /\ reqs' = Append(reqs, NewRequest)
    /\ UNCHANGED <<scriptVars, sleepLeft, routed, prev>>

\* Playwright calls the registered handler with the route of a request.
HandlerInvoke ==
    /\ pc # 0
    /\ browser = "open"
    /\ \E r \in DOMAIN reqs :
          /\ reqs[r].hpc = 0
          /\ reqs' = [reqs EXCEPT ![r].hpc = 1]
    /\ UNCHANGED <<scriptVars, sleepLeft, routed, prev>>

\* handle_route: time.sleep(2) starts ...
HandlerSleepBegin ==
    /\ pc # 0
    /\ \E r \in DOMAIN reqs :
          /\ HAt(r, "sleep")
          /\ reqs[r].timer = -1
          /\ reqs' = [reqs EXCEPT ![r].timer = Ticks(HStmt(r).val)]
    /\ UNCHANGED <<scriptVars, sleepLeft, routed, prev>>

\* ... and ends.
HandlerSleepEnd ==
    /\ pc # 0
    /\ \E r \in DOMAIN reqs :
          /\ HAt(r, "sleep")
          /\ reqs[r].timer = 0
          /\ reqs' = [reqs EXCEPT ![r].timer = -1, ![r].hpc = @ + 1]
    /\ UNCHANGED <<scriptVars, sleepLeft, routed, prev>>

\* HandlerRespond with a handler that stays at its fulfill / abort call.
HandlerRespond_Again ==
    /\ pc # 0
    /\ \E r \in DOMAIN reqs :
          /\ HAt(r, "fulfill") \/ HAt(r, "abort")
          /\ reqs[r].answers < 2
          /\ IF browser = "open"
             THEN reqs' = [reqs EXCEPT ![r].answers = @ + 1]
             ELSE reqs' = [reqs EXCEPT ![r].failed = TRUE, ![r].hpc = HLen + 1]
    /\ UNCHANGED <<scriptVars, sleepLeft, routed, prev>>

\* route.fulfill(status=200, body=...) / route.abort(): the request gets its
\* response, unless the browser is gone and the call raises in the handler.
HandlerRespond ==
    /\ pc # 0
    /\ \E r \in DOMAIN reqs :
          /\ HAt(r, "fulfill") \/ HAt(r, "abort")
          /\ IF browser = "open"
             THEN reqs' = [reqs EXCEPT ![r].answers = @ + 1, ![r].hpc = @ + 1]
             ELSE reqs' = [reqs EXCEPT ![r].failed = TRUE, ![r].hpc = HLen + 1]
    /\ UNCHANGED <<scriptVars, sleepLeft, routed, prev>>

\* Half a second passes for everyone who sleeps.
Tick ==
    /\ pc # 0
    /\ sleepLeft > 0 \/ \E r \in DOMAIN reqs : reqs[r].timer > 0
    /\ sleepLeft' = IF sleepLeft > 0 THEN sleepLeft - 1 ELSE sleepLeft
    /\ reqs' = [r \in DOMAIN reqs |->
                   IF reqs[r].timer > 0
                   THEN [reqs[r] EXCEPT !.timer = @ - 1]
                   ELSE reqs[r]]
    /\ UNCHANGED <<scriptVars, routed, prev>>

\* ------------------------------------------------------- a second execution

Ops(tr) == [k \in 1..Len(tr) |-> <<tr[k].op, tr[k].tgt, tr[k].val, tr[k].idx>>]
Kinds(o) == [k \in 1..Len(o) |-> o[k].kind]

\* The execution ended and no statement raised.
Successful == pc = 0 /\ ~raised

\* The script is started again after a successful execution, against a page
\* that may return other values; what the first execution did is kept.
Rerun ==
    /\ Successful
    /\ ~prev.set
    /\ prev' = [ops |-> Ops(trace), kinds |-> Kinds(out), set |-> TRUE]
    /\ pc' = 1
    /\ exc' = NoExc
    /\ caught' = NoExc
    /\ raised' = FALSE
    /\ browser' = "none"
    /\ trace' = << >>
    /\ out' = << >>
    /\ imgs' = << >>
    /\ history_count' = 0
    /\ i' = 0
    /\ loading_attr' = "unset"
    /\ decoding_attr' = "unset"
    /\ content' = "unset"
    /\ sleepLeft' = -1
    /\ routed' = "none"
    /\ reqs' = << >>
    /\ UNCHANGED script

\* ------------------------------------------------------- specification

Next ==
    \/ Launch
    \/ NewContext
    \/ NewPage
    \/ Route
    \/ Goto
    \/ Reload
    \/ Wait
    \/ Fill
    \/ Click
    \/ Evaluate
    \/ Expect
    \/ Screenshot
    \/ Makedirs
    \/ Count
    \/ For
    \/ GetAttribute
    \/ IfRaise
    \/ PrintAttr
    \/ Content
    \/ IfContent
    \/ PrintLine
    \/ SleepBegin
    \/ SleepEnd
    \/ Close
    \/ WithExit
    \/ PageRequest
    \/ HandlerInvoke
    \/ HandlerSleepBegin
    \/ HandlerSleepEnd
    \/ HandlerRespond
    \/ Tick
    \/ Rerun

Spec == Init /\ [][Next]_vars

\* ------------------------------------------------------- vocabulary of the claims

Done == pc = 0

\* Indices of the successful calls op(tgt, val) in the trace.
Idx(op, tgt, val) ==
    {k \in 1..Len(trace) :
        /\ trace[k].op = op
        /\ trace[k].tgt = tgt
        /\ trace[k].val = val
        /\ trace[k].ok}

\* The first of them, 0 if there is none.
Pos(op, tgt, val) ==
    IF Idx(op, tgt, val) = {}
    THEN 0
    ELSE CHOOSE k \in Idx(op, tgt, val) : \A j \in Idx(op, tgt, val) : k <= j

\* Indices of the calls of op, successful or not / successful.
Calls(op) == {k \in 1..Len(trace) : trace[k].op = op}
OkCalls(op) == {k \in Calls(op) : trace[k].ok}

Printed(kind) == \E k \in 1..Len(out) : out[k].kind = kind

\* The calls that raised.
FailedOps == {trace[k].op : k \in {j \in 1..Len(trace) : ~trace[j].ok}}

NavigationOps == {"goto", "reload"}
InteractionOps == {"click", "fill", "evaluate"}
CheckOps == {"expect", "get_attribute", "print_attr", "count", "content", "wait"}

Accordions == {"verify_accordion", "verify_accordion_v2", "verify_accordion_v3"}
Stubbed == {"verify_accordion_v3", "verify_spinner"}

\* ------------------------------------------------------- C1

\* C1: in every script, on every execution in which the browser was launched,
\* browser.close() is executed before the script ends, when every call succeeds
\* and when a navigation, wait, interaction, assertion or screenshot call raises.
C1_CloseAlwaysExecuted ==
    ( /\ Done
      /\ OkCalls("launch") # {}
      /\ FailedOps \subseteq
            NavigationOps \cup InteractionOps \cup {"wait", "expect", "screenshot"} )
    => Calls("close") # {}

\* ------------------------------------------------------- C2

\* C2: in every script an exception raised by an automation call or assertion
\* during the verification (after the browser and page were opened) is caught at
\* the top level and a message describing it is printed; it never propagates out
\* of the script.
C2_ExceptionsCaughtAndPrinted ==
    ( /\ Done
      /\ raised
      /\ FailedOps \cap {"launch", "new_context", "new_page"} = {} )
    => /\ exc = NoExc
       /\ Printed("failed") \/ Printed("error")

\* ------------------------------------------------------- C3

\* A screenshot was taken at j, and an interaction, assertion or page check was
\* made at a later k.
CheckAfterScreenshot ==
    \E j \in OkCalls("screenshot") :
        \E k \in (j + 1)..Len(trace) : trace[k].op \in InteractionOps \cup CheckOps

\* The first navigation precedes every interaction.
NavigationFirst ==
    \A k \in 1..Len(trace) :
        trace[k].op \in InteractionOps =>
            \E j \in 1..(k - 1) : trace[j].op = "goto" /\ trace[j].ok

\* Every screenshot precedes the close, and the close is the last call.
CloseLast ==
    \A k \in Calls("close") :
        /\ k = Len(trace)
        /\ \A j \in Calls("screenshot") : j < k

ScreenshotThenCheck == {"verify_buttons", "verify_changes", "verify_spinner"}

\* C3 as stated: in every script the first navigation precedes every
\* interaction, every assertion or check precedes every screenshot, every
\* screenshot precedes the close, and nothing is checked after a screenshot.
C3_NavigateInteractAssertScreenshotClose ==
    /\ NavigationFirst
    /\ ~CheckAfterScreenshot
    /\ CloseLast

\* C3 amended: the first navigation precedes every interaction and every
\* screenshot precedes the close in every script; nothing is checked after a
\* screenshot in six of the scripts, while every successful execution of
\* verify_buttons, verify_changes and verify_spinner interacts with or checks
\* the page after its first screenshot.
C3_OrderExceptScreenshotThenCheck ==
    /\ NavigationFirst
    /\ CloseLast
    /\ script \notin ScreenshotThenCheck => ~CheckAfterScreenshot
    /\ (script \in ScreenshotThenCheck /\ Successful) => CheckAfterScreenshot

\* An execution of verify_lazy that inspected an image, took its screenshot and
\* closed the browser.
C3_Witness ==
    /\ script = "verify_lazy"
    /\ Done
    /\ Calls("get_attribute") # {}
    /\ OkCalls("screenshot") # {}
    /\ Calls("close") # {}

\* ------------------------------------------------------- C4

SameOps == Ops(trace) = prev.ops
SameKinds == Kinds(out) = prev.kinds

\* How many "Image i: ..." lines an execution printed: its history_count.
ImageLines(kinds) == Cardinality({k \in 1..Len(kinds) : kinds[k] = "image"})
\* Whether an execution of verify_spinner took the "found" branch.
FoundBranch(kinds) == \E k \in 1..Len(kinds) : kinds[k] = "spinner_found"

\* C4 as stated: no script branches; any two successful executions of a script
\* perform the same sequence of automation operations and print the same
\* sequence of message kinds, whatever the page returns.
C4_NoBranching ==
    (Successful /\ prev.set) => (SameOps /\ SameKinds)

\* C4 amended: that holds for seven scripts. verify_lazy loops over the
\* history_count images (two get_attribute calls and one line per image) and
\* verify_spinner branches on the page content (one line, or two other lines);
\* two successful executions of verify_lazy that see the same history_count, and
\* two of verify_spinner that take the same branch, do and print the same, and
\* the operations of verify_spinner do not depend on the branch.
C4_SameUnlessLoopOrBranch ==
    (Successful /\ prev.set) =>
        /\ script \notin {"verify_lazy", "verify_spinner"} => (SameOps /\ SameKinds)
        /\ (script = "verify_lazy" /\ ImageLines(prev.kinds) = history_count)
              => (SameOps /\ SameKinds)
        /\ script = "verify_spinner" => SameOps
        /\ ( /\ script = "verify_spinner"
             /\ FoundBranch(prev.kinds) <=> content = "validating+spin" )
              => SameKinds

\* A second successful execution of verify_buttons in which the page returned
\* different aria-pressed values for the two buttons.
C4_Witness ==
    /\ script = "verify_buttons"
    /\ Successful
    /\ prev.set
    /\ \E j, k \in 1..Len(out) : out[j].arg[2] # out[k].arg[2]

\* ------------------------------------------------------- C5

\* The steps of the accordion check, as positions in the trace.
PosCollapsed == Pos("expect", "toggle", "aria-expanded=false")
PosHidden == Pos("expect", "content", "not visible")
PosToggleClick == Pos("click", "toggle", "")
PosExpanded == Pos("expect", "toggle", "aria-expanded=true")
PosControls == Pos("expect", "toggle", "aria-controls=example-prompts-content")
PosVisible == Pos("expect", "content", "visible")
PosRegion == Pos("expect", "region", "visible")
PosScreenshot ==
    IF OkCalls("screenshot") = {}
    THEN 0
    ELSE CHOOSE k \in OkCalls("screenshot") : \A j \in OkCalls("screenshot") : k <= j

ToggleClicks == {k \in Calls("click") : trace[k].tgt = "toggle"}

BeforeClick ==
    /\ 0 < PosCollapsed /\ PosCollapsed < PosToggleClick
    /\ 0 < PosHidden /\ PosHidden < PosToggleClick
    /\ Cardinality(ToggleClicks) = 1

\* C5 as stated: in the accordion scripts "Verification successful!" is printed
\* only if the collapsed state was observed, the toggle was clicked once, and
\* then aria-expanded="true", aria-controls, the visible content and the visible
\* region were observed in that order, followed by a successful screenshot.
C5_SuccessOnlyAfterChecksInStatedOrder ==
    (script \in Accordions /\ Printed("success")) =>
        /\ BeforeClick
        /\ PosToggleClick < PosExpanded
        /\ PosExpanded < PosControls
        /\ PosControls < PosVisible
        /\ PosVisible < PosRegion
        /\ PosRegion < PosScreenshot

\* C5 amended: as stated, but after the click the order is aria-expanded="true",
\* the content visible, aria-controls, the region visible.
C5_SuccessOnlyAfterChecksInCodeOrder ==
    (script \in Accordions /\ Printed("success")) =>
        /\ BeforeClick
        /\ PosToggleClick < PosExpanded
        /\ PosExpanded < PosVisible
        /\ PosVisible < PosControls
        /\ PosControls < PosRegion
        /\ PosRegion < PosScreenshot

\* An accordion script has printed "Verification successful!".
C5_Witness ==
    /\ script = "verify_accordion_v3"
    /\ Printed("success")
    /\ Done

\* ------------------------------------------------------- C6

\* Image k (counted from 1) lacks loading="lazy" or decoding="async".
BadImage(k) == imgs[k].loading # "lazy" \/ imgs[k].decoding # "async"
AllImagesGood == \A k \in 1..history_count : ~BadImage(k)
FirstBad == CHOOSE k \in 1..history_count :
                BadImage(k) /\ \A j \in 1..(k - 1) : ~BadImage(j)

\* The images (counted from 0, as the script does) whose attributes were read.
Inspected == {trace[k].idx : k \in Calls("get_attribute")}
\* Every image read had loading read first, then decoding, once each.
LoadingThenDecoding ==
    \A k \in Calls("get_attribute") :
        IF trace[k].val = "loading"
        THEN /\ k + 1 \in Calls("get_attribute")
             /\ trace[k + 1].val = "decoding"
             /\ trace[k + 1].idx = trace[k].idx
        ELSE /\ k - 1 \in Calls("get_attribute")
             /\ trace[k - 1].val = "loading"

\* verify_lazy has counted the images and has ended.
LazyEnded == script = "verify_lazy" /\ Done /\ OkCalls("count") # {}
NoCallRaised == FailedOps = {}

LazyOutcome ==
    /\ (OkCalls("screenshot") # {} /\ Printed("saved")) <=> AllImagesGood
    /\ ~AllImagesGood =>
          /\ exc = Exc("AssertionError",
                       IF imgs[FirstBad].loading # "lazy" THEN 29 ELSE 31,
                       FirstBad - 1)
          /\ Inspected = 0..(FirstBad - 1)
          /\ LoadingThenDecoding
          /\ Calls("screenshot") = {}

ScreenshotStep ==
    /\ At("screenshot")
    /\ trace' = Append(trace, T(Stmt, TRUE, -1))

\* The route handler was registered before the Save Key click.
RouteBeforeSaveKey ==
    \A k \in Calls("click") :
        trace[k].tgt = "save_key" =>
            \E j \in 1..(k - 1) : trace[j].op = "route" /\ trace[j].ok

\* C7: in verify_spinner, on every interleaving of the script, the page and
\* handle_route, the intercepted request has not been aborted when
\* page.screenshot captures the page, and the handler was registered before
\* the Save Key click.
C7_ScreenshotWhileValidating ==
    [][ (script = "verify_spinner" /\ ScreenshotStep) =>
            /\ RouteBeforeSaveKey
            /\ \A r \in DOMAIN reqs : reqs[r].answers = 0 ]_vars

\* ------------------------------------------------------- C8

\* The handler of request r has returned from its fulfill / abort call.
Responded(r) == reqs[r].hpc = HLen + 1 /\ ~reqs[r].failed

\* C8 as stated: in verify_accordion_v3 and verify_spinner the handler is
\* registered before the Save Key click and every matching request receives
\* exactly one terminal response: none is answered twice, and none is left
\* unanswered when the script ends.
C8_EveryRequestAnsweredOnce ==
    script \in Stubbed =>
        /\ RouteBeforeSaveKey
        /\ \A r \in DOMAIN reqs : reqs[r].answers <= 1
        /\ Done => \A r \in DOMAIN reqs : reqs[r].answers = 1

\* C8 amended: the handler is registered before the Save Key click, no request
\* is answered twice, and a request is answered (once) exactly if its handler
\* reached and returned from its fulfill / abort call while the browser was
\* open; a request whose handler has not done so when the script ends stays
\* unanswered.
C8_HandledRequestAnsweredOnce ==
    script \in Stubbed =>
        /\ RouteBeforeSaveKey
        /\ \A r \in DOMAIN reqs :
              /\ reqs[r].answers <= 1
              /\ reqs[r].answers = 1 <=> Responded(r)

\* verify_spinner ended with its request aborted by the handler.
C8_Witness ==
    /\ script = "verify_spinner"
    /\ Done
    /\ reqs # << >>
    /\ reqs[1].answers = 1
    /\ Responded(1)

\* ------------------------------------------------------- C9

\* C9: in verify_accordion, verify_accordion_v2, verify_accordion_v3 and
\* verify_changes every execution prints exactly one of the success message and
\* the failure message: never both and never neither.
C9_ExactlyOneOfSuccessAndFailure ==
    (script \in Accordions \cup {"verify_changes"} /\ Done) =>
        (Printed("success") <=> ~(Printed("failed") \/ Printed("error")))

====
